---- MODULE Spec2Model ----
(***************************************************************************)
(* Model of auto_offline_voice_assistant.py: the wake-word gate, the       *)
(* silence-timeout capture cycle (polling loop + audio callback sharing    *)
(* one recognizer), the command router and its backends.                   *)
(*                                                                         *)
(* Text is a sequence of one-character strings.  Time is counted in ticks  *)
(* of 100 ms (the polling sleep) from the moment listen() reads the clock  *)
(* at its first line.                                                      *)
(***************************************************************************)
EXTENDS Integers, Sequences, FiniteSets, TLC

VARIABLES
    pc,               \* where the main thread is
    crash,            \* the exception that left main(): "none" while it runs
    pending,          \* recognizer: hypothesis of the open segment
    cbPc,             \* audio thread: "idle", or "accepted" inside callback
    cbRet,            \* callback: what AcceptWaveform returned
    now,              \* time.time(), in ticks since listen() began
    last_voice_time,  \* listen(): the variable of that name
    text,             \* main(): the utterance of the command cycle
    response,         \* main(): the variable of that name
    calls,            \* execute_shell / query_local_llm / speak calls made
                      \* by main in the command cycle so far, in order
    command,          \* branch taken by main in the command cycle
    event,            \* the last transcript event of the recognizer
    finals,           \* texts of the non-empty Final events of the capture
                      \* cycle up to its force-finalization
    heard,            \* some event of the capture cycle had non-empty text
    lastActivity,     \* time of the latest non-empty event of the capture
                      \* cycle up to its force-finalization
    finalizedAt,      \* time of the force-finalization
    frames,           \* blocks delivered to the callback in the cycle
    gateFrames,       \* blocks read in the current wake-word wait
    cycles,           \* capture cycles begun
    silentRuns,       \* capture cycles in a row, up to the last one that
                      \* returned, in which nothing was heard
    dropped           \* audio the microphone produced in the current
                      \* wake-word phase while no stream was open

vars == <<pc, crash, pending, cbPc, cbRet, now, last_voice_time,
          text, response, calls, command,
          event, finals, heard, lastActivity, finalizedAt,
          frames, gateFrames, cycles, silentRuns, dropped>>

(* ------------------------------ bounds --------------------------------- *)
\* frames delivered to the callback in one capture cycle
MaxFrames == 2
\* frames read by the gate in one wake-word wait
MaxGateFrames == 2
\* capture cycles in one run
MaxCycles == 2
\* a block reaches the callback at most MaxGap ticks after the last recorded
\* activity, or once the polling loop has found the timeout
MaxGap == 2

(* ---------------------------- configuration ---------------------------- *)
silence_timeout == 3
TicksPerSecond == 10
PollInterval == 1
SilenceTimeout == silence_timeout * TicksPerSecond

wake_word == <<"h","e","y"," ","j","a","r","v","i","s">>

(* ------------------------------- text ---------------------------------- *)
None == <<"None">>
Empty == <<>>

UpperLetters == <<"A","B","C","D","E","F","G","H","I","J","K","L","M",
                  "N","O","P","Q","R","S","T","U","V","W","X","Y","Z">>
LowerLetters == <<"a","b","c","d","e","f","g","h","i","j","k","l","m",
                  "n","o","p","q","r","s","t","u","v","w","x","y","z">>

LowerChar(c) ==
    IF \E i \in 1..26 : UpperLetters[i] = c
    THEN LowerLetters[CHOOSE i \in 1..26 : UpperLetters[i] = c]
    ELSE c

\* str.lower()
Lower(s) == [i \in 1..Len(s) |-> LowerChar(s[i])]

\* the `in` operator on str
Contains(s, sub) ==
    \E i \in 1..(Len(s) - Len(sub) + 1) : SubSeq(s, i, i + Len(sub) - 1) = sub

Whitespace == {" ", "\t", "\n"}

RECURSIVE LStrip(_)
LStrip(s) == IF s = <<>> \/ s[1] \notin Whitespace THEN s ELSE LStrip(Tail(s))

RECURSIVE RStrip(_)
RStrip(s) ==
    IF s = <<>> \/ s[Len(s)] \notin Whitespace THEN s
    ELSE RStrip(SubSeq(s, 1, Len(s) - 1))

\* str.strip()
Strip(s) == RStrip(LStrip(s))

(* ------------------------------ inputs --------------------------------- *)
TurnOn == <<"t","u","r","n"," ","o","n">>
TheLights == <<"t","h","e"," ","l","i","g","h","t","s">>
RunWord == <<"r","u","n">>
ExitWord == <<"E","x","i","t">>
HeyJarvis == <<"H","e","y"," ","J","a","r","v","i","s">>
HeyJarvisNow == <<"H","E","Y"," ","J","A","R","V","I","S"," ","N","O","W">>
Hello == <<"h","e","l","l","o">>

\* a block of audio: the words it adds to the recognizer's hypothesis and
\* whether the recognizer detects the end of a segment in it
Frame(w, e) == [words |-> w, endpoint |-> e]

\* the blocks heard during a capture cycle
ListenFrames ==
    {Frame(Empty, FALSE), Frame(Empty, TRUE),
     Frame(TurnOn, FALSE), Frame(TurnOn, TRUE), Frame(TheLights, TRUE),
     Frame(RunWord, FALSE), Frame(ExitWord, FALSE)}

\* the blocks heard while waiting for the wake word
GateWords == {Empty, HeyJarvis, HeyJarvisNow, Hello}
GateFrames == [words : GateWords, endpoint : BOOLEAN]

\* utterances handed to the router
PleaseExitNow == <<"p","l","e","a","s","e"," ","e","x","i","t"," ","n","o","w">>
RunThenExit == <<"R","u","n"," ","t","h","e","n"," ","E","X","I","T">>
QuitWord == <<"Q","U","I","T">>
RunTheBackupScript ==
    <<"r","u","n"," ","t","h","e"," ","b","a","c","k","u","p"," ",
      "s","c","r","i","p","t">>
ExecuteIt == <<"E","x","e","c","u","t","e"," ","i","t">>
Brunch == <<"b","r","u","n","c","h">>
WhatIsTheWeather ==
    <<"w","h","a","t"," ","i","s"," ","t","h","e"," ",
      "w","e","a","t","h","e","r">>
RouterTexts ==
    {PleaseExitNow, RunThenExit, QuitWord, RunTheBackupScript, ExecuteIt,
     Brunch, WhatIsTheWeather, TurnOn}

\* texts FinalResult() may hand to listen(): nothing, white space only, a
\* text with white space around it, a plain text
Blank == <<" ">>
TabNewline == <<"\t", "\n">>
PaddedOk == <<" ", "o", "k", "\n">>
Ok == <<"o", "k">>
FinalTexts == {Empty, Blank, TabNewline, PaddedOk, TurnOn}

ShellOutcomes == {"missing", "ok", "nonzero", "oserror"}
LlmOutcomes == {"missing", "ok", "nonzero", "oserror"}
SpeakOutcomes == {"ok", "missing"}

(* ----------------------------- recognizer ------------------------------ *)
\* KaldiRecognizer.AcceptWaveform: the hypothesis of the open segment grows
\* by the words of the block (words are separated by one space)
AcceptWaveform(hyp, frame) ==
    IF frame.words = Empty THEN hyp
    ELSE IF hyp = Empty THEN frame.words
    ELSE hyp \o <<" ">> \o frame.words

\* Result() / FinalResult(): return the text of the segment and close it;
\* PartialResult(): return the hypothesis and leave the segment open
ResultText(hyp) == hyp
AfterResult(hyp) == Empty
PartialText(hyp) == hyp

TranscriptEvent(hyp, frame) ==
    [kind |-> IF frame.endpoint THEN "Final" ELSE "Partial",
     text |-> AcceptWaveform(hyp, frame)]

NoEvent == [kind |-> "none", text |-> Empty]

(* ------------------------------ Init ----------------------------------- *)
Init ==
    /\ pc = "gate"
    /\ crash = "none"
    /\ pending = Empty
    /\ cbPc = "idle"
    /\ cbRet = FALSE
    /\ now = 0
    /\ last_voice_time = 0
    /\ text = None
    /\ response = "none"
    /\ calls = <<>>
    /\ command = "none"
    /\ event = NoEvent
    /\ finals = <<>>
    /\ heard = FALSE
    /\ lastActivity = 0
    /\ finalizedAt = 0
    /\ frames = 0
    /\ gateFrames = 0
    /\ cycles = 0
    /\ silentRuns = 0
    /\ dropped = FALSE


(* --------------------------- wake-word gate ---------------------------- *)
\* the gate without the .lower() of line 92
WakeMatchCaseSensitive(t) == Contains(t, wake_word)

\* line 93 applied to the lowercased text of line 92
WakeMatch(t) == Contains(Lower(t), wake_word)

\* the gate testing the hypothesis after every block
GateTriggersOnAnyEvent(accepted, hyp) == WakeMatch(ResultText(hyp))

\* lines 90-95: only a block on which AcceptWaveform returns True is looked
\* at; hyp is the recognizer's hypothesis after the block
GateTriggers(accepted, hyp) == accepted /\ WakeMatch(ResultText(hyp))

\* one iteration of the loop of listen_for_wake_word: open the stream, read
\* one block, feed it to the recognizer, test a finished segment
GateFrame(frame) ==
    /\ pc = "gate"
    /\ gateFrames < MaxGateFrames
    /\ LET hyp == AcceptWaveform(pending, frame) IN
         /\ event' = TranscriptEvent(pending, frame)
         /\ pending' = IF frame.endpoint THEN AfterResult(hyp) ELSE hyp
         /\ IF GateTriggers(frame.endpoint, hyp)
            THEN pc' = "listen_start" /\ gateFrames' = 0
            ELSE pc' = "gate" /\ gateFrames' = gateFrames + 1
    /\ UNCHANGED <<crash, cbPc, cbRet, now, last_voice_time, text, response,
                   calls, command, finals, heard, lastActivity, finalizedAt,
                   frames, cycles,
                   silentRuns, dropped>>

\* the stream of one gate iteration is closed when its with block ends
\* (lines 82-88 run again for the next block), and the stream of listen()
\* is opened only after listen_for_wake_word has returned (lines 112-118):
\* the microphone goes on producing audio in between, and no stream takes it
StreamClosedAudio ==
    /\ \/ pc = "gate" /\ gateFrames >= 1
       \/ pc = "listen_start"
    /\ ~dropped
    /\ dropped' = TRUE
    /\ UNCHANGED <<pc, crash, pending, cbPc, cbRet, now, last_voice_time, text,
                   response, calls, command, event, finals, heard,
                   lastActivity, finalizedAt, frames, gateFrames, cycles,
                   silentRuns>>

\* sd.RawInputStream(...) or stream.read raises: nothing in
\* listen_for_wake_word or main catches it
GateAudioError ==
    /\ pc = "gate"
    /\ pc' = "crashed"
    /\ crash' = "audio"
    /\ UNCHANGED <<pending, cbPc, cbRet, now, last_voice_time, text, response,
                   calls, command, event, finals, heard, lastActivity,
                   finalizedAt, frames, gateFrames, cycles,
                   silentRuns, dropped>>

(* ---------------------------- capture cycle ---------------------------- *)
\* the callback stream of listen() is open
StreamOpen ==
    pc \in {"poll_check", "poll_finalize", "poll_sleep", "listen_exit"}

\* listen() up to the first test of the loop: read the clock, open the
\* stream with the callback
ListenStart ==
    /\ pc = "listen_start"
    /\ cycles < MaxCycles
    /\ pc' = "poll_check"
    /\ now' = 0
    /\ last_voice_time' = 0
    /\ cycles' = cycles + 1
    /\ frames' = 0
    /\ finals' = <<>>
    /\ heard' = FALSE
    /\ lastActivity' = 0
    /\ finalizedAt' = 0
    /\ calls' = <<>>
    /\ command' = "none"
    /\ response' = "none"
    /\ event' = NoEvent
    /\ text' = None
    /\ dropped' = FALSE
    /\ UNCHANGED <<crash, pending, cbPc, cbRet, gateFrames, silentRuns>>

\* sd.RawInputStream(...) raises in listen(): nothing catches it
ListenAudioError ==
    /\ pc = "listen_start"
    /\ pc' = "crashed"
    /\ crash' = "audio"
    /\ UNCHANGED <<pending, cbPc, cbRet, now, last_voice_time, text, response,
                   calls, command, event, finals, heard, lastActivity,
                   finalizedAt, frames, gateFrames, cycles,
                   silentRuns, dropped>>

\* callback, line 103: the audio thread feeds one block to the recognizer
CallbackAccept(frame) ==
    /\ StreamOpen
    /\ cbPc = "idle"
    /\ frames < MaxFrames
    /\ \/ now - last_voice_time <= MaxGap
       \/ pc \in {"poll_finalize", "listen_exit"}
    /\ cbPc' = "accepted"
    /\ cbRet' = frame.endpoint
    /\ pending' = AcceptWaveform(pending, frame)
    /\ frames' = frames + 1
    /\ event' = TranscriptEvent(pending, frame)
    /\ heard' = (heard \/ event'.text # Empty)
    /\ IF event'.text # Empty /\ pc # "listen_exit"
       THEN /\ lastActivity' = now
            /\ finals' = IF frame.endpoint THEN Append(finals, event'.text)
                         ELSE finals
       ELSE UNCHANGED <<lastActivity, finals>>
    /\ UNCHANGED <<pc, crash, now, last_voice_time, text, response, calls,
                   command, finalizedAt, gateFrames, cycles,
                   silentRuns, dropped>>

\* callback, lines 104-110: the text the callback tests before it resets
\* last_voice_time
CallbackText(accepted, hyp) ==
    IF accepted THEN ResultText(hyp) ELSE PartialText(hyp)

\* the callback restarting the silence clock on an empty transcript
VoiceTimeRestart(active, t, last) == IF active THEN t ELSE 0

\* the callback taking every transcript for activity
VoiceTimeAlways(active, t, last) == t

\* callback, lines 105-106 and 109-110: the value last_voice_time has after
\* the callback, t being time.time()
VoiceTime(active, t, last) == IF active THEN t ELSE last

\* callback, lines 104-110
CallbackResult ==
    /\ cbPc = "accepted"
    /\ cbPc' = "idle"
    /\ cbRet' = FALSE
    /\ pending' = IF cbRet THEN AfterResult(pending) ELSE pending
    /\ last_voice_time' = VoiceTime(CallbackText(cbRet, pending) # Empty,
                                    now, last_voice_time)
    /\ UNCHANGED <<pc, crash, now, text, response, calls, command,
                   event, finals, heard, lastActivity, finalizedAt, frames,
                   gateFrames, cycles,
                   silentRuns, dropped>>

\* the timeout test with >= for >
TimedOutNonStrict(t, last) == t - last >= SilenceTimeout

\* line 120
TimedOut(t, last) == t - last > SilenceTimeout

\* line 120: the polling loop tests the silence timeout
PollCheck ==
    /\ pc = "poll_check"
    /\ pc' = IF TimedOut(now, last_voice_time) THEN "poll_finalize"
             ELSE "poll_sleep"
    /\ UNCHANGED <<crash, pending, cbPc, cbRet, now, last_voice_time, text,
                   response, calls, command, event, finals, heard,
                   lastActivity, finalizedAt, frames, gateFrames, cycles,
                   silentRuns, dropped>>

\* line 127: time.sleep(0.1); a callback invocation lasts less than a tick
PollSleep ==
    /\ pc = "poll_sleep"
    /\ cbPc = "idle"
    /\ pc' = "poll_check"
    /\ now' = now + PollInterval
    /\ UNCHANGED <<crash, pending, cbPc, cbRet, last_voice_time, text,
                   response, calls, command, event, finals, heard,
                   lastActivity, finalizedAt, frames, gateFrames, cycles,
                   silentRuns, dropped>>

\* listen() returning the stripped text whatever it is
ListenResultAlwaysText(t) == Strip(t)

\* listen() without the .strip() of line 122
ListenResultNoStrip(t) == IF t # Empty THEN t ELSE None

\* lines 122-126: the value listen() returns for the text of FinalResult()
ListenResult(t) == IF Strip(t) # Empty THEN Strip(t) ELSE None

\* lines 121-126: force-finalize the recognizer and pick the return value
PollFinalize ==
    /\ pc = "poll_finalize"
    /\ pc' = "listen_exit"
    /\ text' = ListenResult(ResultText(pending))
    /\ pending' = AfterResult(pending)
    /\ finalizedAt' = now
    /\ UNCHANGED <<crash, cbPc, cbRet, now, last_voice_time, response, calls,
                   command, event, finals, heard, lastActivity, frames,
                   gateFrames, cycles,
                   silentRuns, dropped>>

\* the return leaves the with block (line 112): the stream is closed once
\* no callback invocation is running, and main assigns text (line 160);
\* the clock and the locals of listen() are not read again
ListenExit ==
    /\ pc = "listen_exit"
    /\ cbPc = "idle"
    /\ pc' = "listened"
    /\ now' = 0
    /\ last_voice_time' = 0
    /\ lastActivity' = 0
    /\ finalizedAt' = 0
    /\ frames' = 0
    /\ silentRuns' = IF heard THEN 0 ELSE silentRuns + 1
    /\ UNCHANGED <<crash, pending, cbPc, cbRet, text, response, calls,
                   command, event, finals, heard, gateFrames, cycles,
                   dropped>>

(* ------------------------------ backends ------------------------------- *)
\* execute_shell: only CalledProcessError is caught (line 152); any other
\* exception of check_output leaves the function ("raise")
execute_shell(outcome) ==
    CASE outcome = "missing" -> "ShellGPT not installed or path incorrect."
      [] outcome = "ok" -> "output"
      [] outcome = "nonzero" -> "Error executing sgpt"
      [] OTHER -> "raise"

\* query_local_llm: every Exception of check_output is caught (line 142)
query_local_llm(outcome) ==
    CASE outcome = "missing" -> "Offline LLM not available. Install Ollama."
      [] outcome = "ok" -> "result"
      [] OTHER -> "Error"

(* ------------------------------ main loop ------------------------------ *)
\* main testing only for the empty string
NoSpeechOnlyEmpty(t) == t = Empty

\* line 161: `not text`
NoSpeech(t) == t = None \/ t = Empty

\* the router testing "run"/"execute" before "exit"/"quit"
ClassifyShellFirst(t) ==
    IF Contains(Lower(t), <<"r","u","n">>)
       \/ Contains(Lower(t), <<"e","x","e","c","u","t","e">>)
    THEN "ShellRequest"
    ELSE IF Contains(Lower(t), <<"e","x","i","t">>)
            \/ Contains(Lower(t), <<"q","u","i","t">>)
    THEN "Exit"
    ELSE "Query"

\* lines 165-172: the branch main takes for an utterance
Classify(t) ==
    IF Contains(Lower(t), <<"e","x","i","t">>)
       \/ Contains(Lower(t), <<"q","u","i","t">>)
    THEN "Exit"
    ELSE IF Contains(Lower(t), <<"r","u","n">>)
            \/ Contains(Lower(t), <<"e","x","e","c","u","t","e">>)
    THEN "ShellRequest"
    ELSE "Query"

\* lines 161-162: nothing was said, back to the top of the loop
MainNoSpeech ==
    /\ pc = "listened"
    /\ NoSpeech(text)
    /\ pc' = "gate"
    /\ gateFrames' = 0
    /\ dropped' = FALSE
    /\ event' = NoEvent
    /\ finals' = <<>>
    /\ heard' = FALSE
    /\ UNCHANGED <<crash, pending, cbPc, cbRet, now, last_voice_time, text,
                   response, calls, command, lastActivity, finalizedAt,
                   frames, cycles, silentRuns>>

\* the Exit branch without its break
MainExitNoBreak(said) ==
    /\ pc = "listened"
    /\ ~NoSpeech(text)
    /\ Classify(text) = "Exit"
    /\ command' = "Exit"
    /\ calls' = Append(calls, "speak")
    /\ IF said = "ok"
       THEN pc' = "gate" /\ crash' = crash
       ELSE pc' = "crashed" /\ crash' = "speak"
    /\ UNCHANGED <<pending, cbPc, cbRet, now, last_voice_time, text, response,
                   event, finals, heard, lastActivity, finalizedAt, frames,
                   gateFrames, cycles, silentRuns, dropped>>

\* lines 165-167: say goodbye and leave the loop; `say` may be missing, and
\* subprocess.run then raises out of main
MainExit(said) ==
    /\ pc = "listened"
    /\ ~NoSpeech(text)
    /\ Classify(text) = "Exit"
    /\ command' = "Exit"
    /\ calls' = Append(calls, "speak")
    /\ IF said = "ok"
       THEN pc' = "done" /\ crash' = crash
       ELSE pc' = "crashed" /\ crash' = "speak"
    /\ UNCHANGED <<pending, cbPc, cbRet, now, last_voice_time, text, response,
                   event, finals, heard, lastActivity, finalizedAt, frames,
                   gateFrames, cycles,
                   silentRuns, dropped>>

\* lines 169-170
MainShell(outcome) ==
    /\ pc = "listened"
    /\ ~NoSpeech(text)
    /\ Classify(text) = "ShellRequest"
    /\ command' = "ShellRequest"
    /\ calls' = Append(calls, "execute_shell")
    /\ IF execute_shell(outcome) = "raise"
       THEN pc' = "crashed" /\ crash' = "backend" /\ response' = response
       ELSE pc' = "respond" /\ crash' = crash
            /\ response' = execute_shell(outcome)
    /\ UNCHANGED <<pending, cbPc, cbRet, now, last_voice_time, text, event,
                   finals, heard, lastActivity, finalizedAt, frames,
                   gateFrames, cycles,
                   silentRuns, dropped>>

\* lines 171-172
MainQuery(outcome) ==
    /\ pc = "listened"
    /\ ~NoSpeech(text)
    /\ Classify(text) = "Query"
    /\ command' = "Query"
    /\ calls' = Append(calls, "query_local_llm")
    /\ IF query_local_llm(outcome) = "raise"
       THEN pc' = "crashed" /\ crash' = "backend" /\ response' = response
       ELSE pc' = "respond" /\ crash' = crash
            /\ response' = query_local_llm(outcome)
    /\ UNCHANGED <<pending, cbPc, cbRet, now, last_voice_time, text, event,
                   finals, heard, lastActivity, finalizedAt, frames,
                   gateFrames, cycles,
                   silentRuns, dropped>>

\* lines 174-175, then the top of the loop, where the next command cycle
\* begins: text and response are not read again before they are assigned
MainSpeak(said) ==
    /\ pc = "respond"
    /\ IF said = "ok"
       THEN /\ pc' = "gate"
            /\ crash' = crash
            /\ calls' = <<>>
            /\ command' = "none"
            /\ text' = None
            /\ response' = "none"
            /\ event' = NoEvent
            /\ finals' = <<>>
            /\ heard' = FALSE
       ELSE /\ pc' = "crashed"
            /\ crash' = "speak"
            /\ calls' = Append(calls, "speak")
            /\ UNCHANGED <<command, text, response, event, finals, heard>>
    /\ gateFrames' = 0
    /\ dropped' = FALSE
    /\ UNCHANGED <<pending, cbPc, cbRet, now, last_voice_time, lastActivity,
                   finalizedAt, frames, cycles, silentRuns>>

(* --------------------------- specification ----------------------------- *)
Next ==
    \/ \E frame \in GateFrames : GateFrame(frame)
    \/ StreamClosedAudio
    \/ GateAudioError
    \/ ListenStart
    \/ ListenAudioError
    \/ \E frame \in ListenFrames : CallbackAccept(frame)
    \/ CallbackResult
    \/ PollCheck
    \/ PollSleep
    \/ PollFinalize
    \/ ListenExit
    \/ MainNoSpeech
    \/ \E said \in SpeakOutcomes : MainExit(said)
    \/ \E outcome \in ShellOutcomes : MainShell(outcome)
    \/ \E outcome \in LlmOutcomes : MainQuery(outcome)
    \/ \E said \in SpeakOutcomes : MainSpeak(said)

Spec == Init /\ [][Next]_vars

\* the router alone: main holds an utterance that listen() has returned
InitRouter ==
    /\ pc = "listened"
    /\ text \in RouterTexts
    /\ crash = "none"
    /\ pending = Empty
    /\ cbPc = "idle"
    /\ cbRet = FALSE
    /\ now = 0
    /\ last_voice_time = 0
    /\ response = "none"
    /\ calls = <<>>
    /\ command = "none"
    /\ event = NoEvent
    /\ finals = <<>>
    /\ heard = TRUE
    /\ lastActivity = 0
    /\ finalizedAt = 0
    /\ frames = 0
    /\ gateFrames = 0
    /\ cycles = 1
    /\ silentRuns = 0
    /\ dropped = FALSE

SpecRouter == InitRouter /\ [][Next]_vars

\* the end of a capture cycle alone: the polling loop has found the timeout
\* and the recognizer holds the text that FinalResult() is about to return
InitFinalize ==
    /\ pc = "poll_finalize"
    /\ pending \in FinalTexts
    /\ crash = "none"
    /\ cbPc = "idle"
    /\ cbRet = FALSE
    /\ now = SilenceTimeout + PollInterval
    /\ last_voice_time = 0
    /\ text = None
    /\ response = "none"
    /\ calls = <<>>
    /\ command = "none"
    /\ event = IF pending = Empty THEN NoEvent
               ELSE [kind |-> "Partial", text |-> pending]
    /\ finals = <<>>
    /\ heard = (pending # Empty)
    /\ lastActivity = 0
    /\ finalizedAt = 0
    /\ frames = 0
    /\ gateFrames = 0
    /\ cycles = 1
    /\ silentRuns = 0
    /\ dropped = FALSE

SpecFinalize == InitFinalize /\ [][Next]_vars

\* the main thread runs its polling loop whenever it can (the loop only
\* tests, sleeps and returns), and the audio thread finishes a callback
\* invocation it has begun
SpecFair ==
    /\ Init
    /\ [][Next]_vars
    /\ WF_vars(PollCheck)
    /\ WF_vars(PollSleep)
    /\ WF_vars(PollFinalize)
    /\ WF_vars(ListenExit)
    /\ WF_vars(CallbackResult)

(* ------------------------------ properties ---------------------------- *)
\* two characters that are the same letter, whatever their case
SameLetter(a, b) ==
    \/ a = b
    \/ \E k \in 1..26 : {a, b} = {UpperLetters[k], LowerLetters[k]}

\* t holds the phrase p somewhere, in any letter casing
HasPhrase(t, p) ==
    \E i \in 0..Len(t) :
        /\ i + Len(p) <= Len(t)
        /\ \A j \in 1..Len(p) : SameLetter(t[i + j], p[j])

\* t holds the texts of fs one after the other, in that order
RECURSIVE HoldsInOrder(_, _)
HoldsInOrder(t, fs) ==
    \/ fs = <<>>
    \/ \E i \in 1..Len(t) :
        /\ i + Len(Head(fs)) - 1 <= Len(t)
        /\ SubSeq(t, i, i + Len(Head(fs)) - 1) = Head(fs)
        /\ HoldsInOrder(SubSeq(t, i + Len(Head(fs)), Len(t)), Tail(fs))

\* C1: when the recognizer has emitted several non-empty finals before the
\* silence timeout of a capture cycle, the utterance listen() returns holds
\* the text of each of them, in arrival order.
C1_FinalsConcatenated ==
    (pc = "listened" /\ Len(finals) >= 2)
        => (text # None /\ HoldsInOrder(text, finals))

\* C2: listen() returns None only for a capture cycle in which the
\* recognizer produced no final with non-empty text; after such a final it
\* returns a non-empty utterance.
C2_FinalGivesUtterance ==
    pc = "listened" => (text = None => finals = <<>>)

\* C3: a capture cycle is force-finalized no sooner than silence_timeout
\* and no later than silence_timeout plus one polling interval after its
\* latest non-empty transcript event (or its start).
C3_TimeoutAccuracy ==
    pc = "listen_exit" =>
        /\ lastActivity + SilenceTimeout <= finalizedAt
        /\ finalizedAt <= lastActivity + SilenceTimeout + PollInterval

\* C4: a capture cycle in which no transcript event has non-empty text
\* returns None and leaves the recognizer clean, and so does every further
\* such cycle after it.
C4_NoSpeechIdempotent ==
    (pc = "listened" /\ silentRuns >= 1)
        => (text = None /\ pending = Empty)

C4_Witness ==
    pc = "listened" /\ silentRuns = 2 /\ cycles = 2 /\ text = None

\* C5: after a capture cycle that returned None, the next step of main is
\* to enter the wake-word gate again: no backend call, no speech output, no
\* end of the loop.
C5_NoSpeechIsNoOp ==
    [][(pc = "listened" /\ text = None)
          => (pc' = "gate" /\ calls' = <<>> /\ command' = "none"
              /\ crash' = "none")]_vars

C5_Witness ==
    /\ pc = "gate"
    /\ cycles >= 1
    /\ silentRuns >= 1
    /\ text = None
    /\ calls = <<>>

\* C6: in the gate, a Final event whose text holds the wake phrase in any
\* casing makes listen_for_wake_word return, and a Final event whose text
\* does not hold it leaves the gate listening.
C6_WakeWordAnyCasing ==
    [][(pc = "gate" /\ pc' # "crashed" /\ event'.kind = "Final")
          => IF HasPhrase(event'.text, wake_word)
             THEN pc' = "listen_start"
             ELSE pc' = "gate"]_vars

C6_Witness ==
    /\ pc = "listen_start"
    /\ event.kind = "Final"
    /\ event.text = HeyJarvisNow

\* C7: the gate leaves Idle only on a Final event, never on a Partial one,
\* whatever the partial text holds.
C7_PartialNeverTriggers ==
    [][(pc = "gate" /\ pc' = "listen_start") => event'.kind = "Final"]_vars

C7_Witness ==
    /\ pc = "gate"
    /\ event.kind = "Partial"
    /\ HasPhrase(event.text, wake_word)

\* the command the router is to pick for an utterance
Expected(t) ==
    IF HasPhrase(t, <<"e","x","i","t">>) \/ HasPhrase(t, <<"q","u","i","t">>)
    THEN "Exit"
    ELSE IF HasPhrase(t, <<"r","u","n">>)
            \/ HasPhrase(t, <<"e","x","e","c","u","t","e">>)
    THEN "ShellRequest"
    ELSE "Query"

Called(f) == \E i \in 1..Len(calls) : calls[i] = f

\* C8: the router picks Exit for a text holding "exit" or "quit" in any
\* casing, else ShellRequest for one holding "run" or "execute", else Query;
\* ShellRequest calls execute_shell and not query_local_llm, Query calls
\* query_local_llm and not execute_shell, Exit calls neither.
C8_RouterPriority ==
    command # "none" =>
        /\ command = Expected(text)
        /\ Called("execute_shell") <=> command = "ShellRequest"
        /\ Called("query_local_llm") <=> command = "Query"

C8_Witness ==
    /\ command = "Exit"
    /\ pc = "done"
    /\ HasPhrase(text, <<"r","u","n">>)
    /\ text = RunThenExit

\* C9: no failure of a backend invocation leaves main().
C9_BackendFailuresContained ==
    crash # "backend"

\* C10: no failure of the microphone stream, in the gate or in a capture
\* cycle, leaves main().
C10_AudioErrorsRetried ==
    crash # "audio"

\* C11: the callback's update of the shared capture state and the polling
\* loop's timeout test followed by force-finalization exclude each other:
\* the loop is never between its test and FinalResult() while a callback
\* invocation is between AcceptWaveform and its write of last_voice_time.
C11_CaptureStateLocked ==
    ~(pc = "poll_finalize" /\ cbPc = "accepted")

\* C12: for an utterance classified Exit main calls speak and nothing else,
\* then leaves its loop; from then on no step of the gate, of a capture
\* cycle or of a backend is taken.
C12_ExitEndsLoop ==
    [][/\ command' = "Exit" =>
            (calls' = <<"speak">> /\ pc' \in {"done", "crashed"})
       /\ command = "Exit" => UNCHANGED vars]_vars

C12_Witness ==
    pc = "done" /\ command = "Exit" /\ calls = <<"speak">> /\ cycles >= 1

\* C13: a capture cycle starts only as the step after a trigger of the
\* gate, the step after a trigger starts a capture cycle, and a command
\* cycle that is not Exit leads back to the gate before any other capture.
C13_GateOneShot ==
    [][/\ (pc' = "poll_check" /\ pc \notin {"poll_check", "poll_sleep"})
            => pc = "listen_start"
       /\ pc = "listen_start" => pc' \in {"listen_start", "poll_check"}
       /\ (pc = "listened" /\ command' # "Exit") => pc' \in {"gate", "respond"}
       /\ pc = "respond" => pc' = "gate"]_vars

\* C14: while the stream of a capture cycle is open, last_voice_time never
\* decreases.
C14_VoiceTimeMonotonic ==
    [][(StreamOpen /\ StreamOpen') => last_voice_time' >= last_voice_time]_vars

C14_Witness ==
    StreamOpen /\ last_voice_time > 0 /\ frames = 2 /\ cbPc = "idle"

\* C15: in a capture cycle a callback invocation that gets a non-empty text
\* from Result() or PartialResult() sets last_voice_time to the current
\* time; one that gets an empty text leaves it as it is, and so does every
\* step of the polling loop.
C15_OnlyNonEmptyResets ==
    [][(StreamOpen /\ StreamOpen') =>
          IF cbPc = "accepted" /\ cbPc' = "idle" /\ pending # Empty
          THEN last_voice_time' = now
          ELSE last_voice_time' = last_voice_time]_vars

C15_Witness ==
    /\ StreamOpen
    /\ cbPc = "idle"
    /\ event.kind = "Final"
    /\ event.text = Empty
    /\ frames >= 1
    /\ now > 0
    /\ last_voice_time = 0

\* C16: a capture cycle that has begun returns, once, and it returns only
\* after the polling loop has found more than silence_timeout between the
\* recorded last activity and the current time.
C16_CycleEndsByTimeout ==
    /\ (pc = "poll_check") ~> (pc = "listened")
    /\ [][/\ (pc' = "poll_finalize" /\ pc # "poll_finalize")
               => now - last_voice_time > SilenceTimeout
          /\ (pc' = "listen_exit" /\ pc # "listen_exit")
               => pc = "poll_finalize"
          /\ (pc' = "listened" /\ pc # "listened")
               => (pc = "listen_exit" /\ text' = text)]_vars

C16_Witness ==
    pc = "listened" /\ heard /\ text # None /\ cycles = 2

\* C17: no audio is dropped on its way to the recognizer: all the audio the
\* microphone produces while the gate waits, and between the wake trigger
\* and the start of the capture cycle, reaches a stream that feeds the
\* recognizer.  Refuted: the gate closes its stream after every block and
\* listen() opens a new one.
C17_NoFrameDropped ==
    ~dropped

\* C18: once the polling loop has force-finalized the recognizer, the
\* callback feeds it no further block, so that the recognizer holds no open
\* segment of the capture cycle when listen() has returned and the next
\* wake-word gate phase begins.  Refuted: the stream stays open, and the
\* callback goes on feeding the recognizer, until the with block is left.
C18_FinalizationIsFinal ==
    pc = "listened" => pending = Empty

\* C19: listen() returns None or a text that is not empty once stripped of
\* white space, and main classifies an utterance, calls execute_shell,
\* query_local_llm or speak only while it holds such a text.
C19_NeverEmptyUtterance ==
    /\ pc = "listened" => (text = None \/ Strip(text) # Empty)
    /\ (command # "none" \/ calls # <<>> \/ pc = "respond")
          => (text # None /\ Strip(text) # Empty)

C19_Witness ==
    /\ pc = "respond"
    /\ text = Ok
    /\ command = "Query"
    /\ calls = <<"query_local_llm">>

====
